---- MODULE Spec2Model ----
(***************************************************************************)
(* Model of Backend/face_recognition_api.py: the /verify handler           *)
(* (verify_faces) serving one request.                                     *)
(*                                                                         *)
(* Strings are sequences of symbols.  "data:" stands for the five          *)
(* characters d,a,t,a,: ; "A" is one character of the base64 alphabet;     *)
(* "=" is the pad character; "," is the comma (outside the alphabet);      *)
(* "~" is one character outside ASCII.                                     *)
(* Numbers returned by the verification capability are the rationals       *)
(* k / Denom; numbers in a response are integers in units of 10^-Digits.   *)
(***************************************************************************)
EXTENDS Integers, Sequences, FiniteSets, TLC

\* ---- bounds -------------------------------------------------------------
MaxPayload == 4     \* total number of symbols in the two photo fields
MaxNum == 3         \* distance and threshold are k / Denom, k in 0..MaxNum
Denom == 3

\* ---- program constants --------------------------------------------------
Digits == 4         \* round(..., 4)

Scale == 10 ^ Digits

Symbols == {"data:", "A", "=", ",", "~"}

VARIABLES debug, data, pc, decodeArgs, refData, todayData,
          refPath, todayPath, fs, calls, result, excMsg, response

vars == <<debug, data, pc, decodeArgs, refData, todayData,
          refPath, todayPath, fs, calls, result, excMsg, response>>

\* ---- request payloads (the value of request.json) -----------------------
StringsOfLen(n) == [1..n -> Symbols]

NoField == [str |-> FALSE, s |-> <<>>]

\* A field value: a string, or a JSON value that is not a string.
FieldPairs ==
    UNION { UNION { { <<[str |-> TRUE, s |-> a], [str |-> TRUE, s |-> b]>> :
                         a \in StringsOfLen(i), b \in StringsOfLen(j) }
                    : j \in 0..(MaxPayload - i) }
            : i \in 0..MaxPayload }
    \cup { <<NoField, [str |-> TRUE, s |-> b]>> : b \in StringsOfLen(1) }
    \cup { <<[str |-> TRUE, s |-> a], NoField>> : a \in StringsOfLen(1) }
    \cup { <<NoField, NoField>> }

Payload(kind, hasRef, hasToday, ref, today) ==
    [kind |-> kind, hasRef |-> hasRef, hasToday |-> hasToday,
     ref |-> ref, today |-> today]

\* kind: "unreadable"  request.json raises
\*       "none"        None (no payload, JSON null)
\*       "falsy"       0, false, "" or []
\*       "scalar"      a non-zero number or true
\*       "container"   a non-empty list or string; hasRef / hasToday are the
\*                     results of the two membership tests
\*       "object"      a JSON object; hasRef / hasToday say which keys it has
Payloads ==
    { Payload(k, FALSE, FALSE, NoField, NoField) :
          k \in {"unreadable", "none", "falsy", "scalar"} }
    \cup { Payload("container", r, t, NoField, NoField) :
          r \in BOOLEAN, t \in BOOLEAN }
    \cup { Payload("object", r, t, NoField, NoField) :
          r \in BOOLEAN, t \in BOOLEAN }
    \cup { Payload("object", TRUE, TRUE, p[1], p[2]) : p \in FieldPairs }

\* ---- responses ----------------------------------------------------------
NoResponse == [status |-> 0, body |-> [none |-> TRUE]]

\* an error body returned without its status code
ErrorResponseNoStatus(status, text) ==
    [status |-> 200,
     body |-> [match |-> FALSE, confidence |-> 0, error |-> text]]

\* jsonify({...}), status
ErrorResponse(status, text) ==
    [status |-> status,
     body |-> [match |-> FALSE, confidence |-> 0, error |-> text]]

\* the outer except answering as a client error
ServerErrorAsClient(text) ==
    [status |-> 400,
     body |-> [match |-> FALSE, confidence |-> 0,
               error |-> <<"Server error: ", text>>,
               traceback |-> IF debug THEN <<"traceback">> ELSE <<>>]]

\* lines 103-109: the outer except
ServerError(text) ==
    [status |-> 500,
     body |-> [match |-> FALSE, confidence |-> 0,
               error |-> <<"Server error: ", text>>,
               traceback |-> IF debug THEN <<"traceback">> ELSE <<>>]]

\* ---- data-URL prefix and base64 -----------------------------------------
startswith(s) == Len(s) > 0 /\ s[1] = "data:"

Commas(s) == { i \in 1..Len(s) : s[i] = "," }

Min(S) == CHOOSE x \in S : \A y \in S : x <= y

\* s.split(',')[1]: the piece between the first and the second comma
SplitSecond(s) ==
    LET i == Min(Commas(s))
        later == { j \in Commas(s) : j > i }
        stop == IF later = {} THEN Len(s) + 1 ELSE Min(later)
    IN  SubSeq(s, i + 1, stop - 1)

\* The characters of a string, by class: "A" alphabet, "=" pad,
\* "x" ASCII outside the alphabet, "~" outside ASCII.
RECURSIVE Chars(_)
Chars(s) ==
    IF s = <<>> THEN <<>>
    ELSE (CASE Head(s) = "data:" -> <<"A", "A", "A", "A", "x">>
            [] Head(s) = "," -> <<"x">>
            [] OTHER -> <<Head(s)>>) \o Chars(Tail(s))

\* binascii.a2b_base64 without strict mode: characters outside the alphabet
\* are skipped, a pad is counted only from the third position of a quad, a
\* complete pad sequence ends the input.  Returns <<quad_pos, bytes>> with
\* quad_pos the position in the quad at the end (0 also after a completed pad).
RECURSIVE a2b(_, _, _, _)
a2b(c, quad, pads, bytes) ==
    IF c = <<>> THEN <<quad, bytes>>
    ELSE IF Head(c) = "=" THEN
             IF quad >= 2 /\ quad + pads + 1 >= 4 THEN <<0, bytes>>
             ELSE a2b(Tail(c), quad, IF quad >= 2 THEN pads + 1 ELSE pads, bytes)
    ELSE IF Head(c) = "A" THEN
             a2b(Tail(c), (quad + 1) % 4, 0, IF quad = 0 THEN bytes ELSE bytes + 1)
    ELSE a2b(Tail(c), quad, pads, bytes)

\* base64.b64decode(s): [ok, n (bytes decoded), err (exception text)]
b64decode(s) ==
    LET c == Chars(s)
        r == a2b(c, 0, 0, 0)
    IN  IF \E i \in 1..Len(c) : c[i] = "~"
        THEN [ok |-> FALSE, n |-> 0, err |-> "string argument should contain only ASCII characters"]
        ELSE IF r[1] = 1
        THEN [ok |-> FALSE, n |-> 0, err |-> "Invalid base64-encoded string"]
        ELSE IF r[1] # 0
        THEN [ok |-> FALSE, n |-> 0, err |-> "Incorrect padding"]
        ELSE [ok |-> TRUE, n |-> r[2], err |-> ""]

\* lines 30-33: one field's prefix handling.
\* [ok, s (the string to decode), err]
Strip(f) ==
    IF ~f.str
    THEN [ok |-> FALSE, s |-> <<>>, err |-> "object has no attribute 'startswith'"]
    ELSE IF ~startswith(f.s) THEN [ok |-> TRUE, s |-> f.s, err |-> ""]
    ELSE IF Commas(f.s) = {}
    THEN [ok |-> FALSE, s |-> <<>>, err |-> "list index out of range"]
    ELSE [ok |-> TRUE, s |-> SplitSecond(f.s), err |-> ""]

\* ---- the handler --------------------------------------------------------
NoResult == [ok |-> FALSE, verified |-> FALSE, distance |-> 0, threshold |-> 0,
             np |-> FALSE, msg |-> <<>>]

NoPath == "none"

Begin(p) ==
    /\ data = p
    /\ pc = "validate"
    /\ decodeArgs = <<>>
    /\ refData = 0
    /\ todayData = 0
    /\ refPath = NoPath
    /\ todayPath = NoPath
    /\ calls = <<>>
    /\ result = NoResult
    /\ excMsg = <<>>
    /\ response = NoResponse

Init ==
    /\ debug \in BOOLEAN
    /\ fs = {}
    /\ \E p \in Payloads : Begin(p)

Return(r) ==
    /\ response' = r
    /\ pc' = "done"

\* line 17: key in data, for an object, a list or a string
HasKeyRefOnly(d, key) == d.hasRef

HasKey(d, key) == IF key = "reference_photo" THEN d.hasRef ELSE d.hasToday

\* lines 15-25
Validate ==
    /\ pc = "validate"
    /\ IF data.kind = "unreadable"
       THEN Return(ServerError("request.json failed"))
       ELSE IF data.kind \in {"none", "falsy"}
               \/ (data.kind = "object" /\ ~data.hasRef /\ ~data.hasToday)
       THEN Return(ErrorResponse(400, <<"Missing reference_photo or today_photo">>))
       ELSE IF data.kind = "scalar"
       THEN Return(ServerError("argument is not iterable"))
       ELSE IF ~HasKey(data, "reference_photo") \/ ~HasKey(data, "today_photo")
       THEN Return(ErrorResponse(400, <<"Missing reference_photo or today_photo">>))
       ELSE IF data.kind = "container"
       THEN Return(ServerError("indices must be integers"))
       ELSE /\ pc' = "decode"
            /\ UNCHANGED response
    /\ UNCHANGED <<debug, data, decodeArgs, refData, todayData,
                   refPath, todayPath, fs, calls, result, excMsg>>

\* lines 27-42
Decode ==
    /\ pc = "decode"
    /\ LET r == Strip(data.ref)
           t == Strip(data.today)
           rd == b64decode(r.s)
           td == b64decode(t.s)
           Invalid(err) == ErrorResponse(400, <<"Invalid base64 image data: ", err>>)
       IN  IF ~r.ok
           THEN Return(Invalid(r.err)) /\ UNCHANGED <<decodeArgs, refData, todayData>>
           ELSE IF ~t.ok
           THEN Return(Invalid(t.err)) /\ UNCHANGED <<decodeArgs, refData, todayData>>
           ELSE IF ~rd.ok
           THEN /\ Return(Invalid(rd.err))
                /\ decodeArgs' = <<r.s>>
                /\ UNCHANGED <<refData, todayData>>
           ELSE IF ~td.ok
           THEN /\ Return(Invalid(td.err))
                /\ decodeArgs' = <<r.s, t.s>>
                /\ refData' = rd.n
                /\ UNCHANGED todayData
           ELSE /\ pc' = "stageRef"
                /\ decodeArgs' = <<r.s, t.s>>
                /\ refData' = rd.n
                /\ todayData' = td.n
                /\ UNCHANGED response
    /\ UNCHANGED <<debug, data, refPath, todayPath, fs, calls, result, excMsg>>

\* tempfile.NamedTemporaryFile(delete=False, suffix='.jpg'): the name is
\* unique; here it is named after the role of the file.
TempName(which) == which

StageOutcomes == {"ok", "createFails", "writeFails"}

\* lines 45-47
StageRef ==
    /\ pc = "stageRef"
    /\ \E o \in StageOutcomes :
          /\ fs' = IF o = "createFails" THEN fs ELSE fs \cup {TempName("ref")}
          /\ IF o = "ok"
             THEN /\ refPath' = TempName("ref")
                  /\ pc' = "stageToday"
                  /\ UNCHANGED response
             ELSE /\ Return(ServerError("staging failed"))
                  /\ UNCHANGED refPath
    /\ UNCHANGED <<debug, data, decodeArgs, refData, todayData,
                   todayPath, calls, result, excMsg>>

\* lines 49-51
StageToday ==
    /\ pc = "stageToday"
    /\ \E o \in StageOutcomes :
          /\ fs' = IF o = "createFails" THEN fs ELSE fs \cup {TempName("today")}
          /\ IF o = "ok"
             THEN /\ todayPath' = TempName("today")
                  /\ pc' = "verify"
                  /\ UNCHANGED response
             ELSE /\ Return(ServerError("staging failed"))
                  /\ UNCHANGED todayPath
    /\ UNCHANGED <<debug, data, decodeArgs, refData, todayData,
                   refPath, calls, result, excMsg>>

\* ---- the verification capability (DeepFace.verify) ----------------------
\* A failure message is a sequence of pieces of text; two of the pieces are
\* the phrasings the handler looks for.
Phrases == {"Face could not be detected", "No face detected", "other text"}

Messages == {<<>>} \cup { <<a>> : a \in Phrases }
                   \cup { <<a, b>> : a \in Phrases, b \in Phrases }

\* phrase in msg
Contains(msg, phrase) == \E i \in 1..Len(msg) : msg[i] = phrase

\* np: the numbers are numpy floats (division by zero gives inf or nan)
\* rather than Python floats (division by zero raises).
Results ==
    { [ok |-> TRUE, verified |-> v, distance |-> d, threshold |-> t,
       np |-> n, msg |-> <<>>] :
          v \in BOOLEAN, d \in 0..MaxNum, t \in 0..MaxNum, n \in BOOLEAN }
    \cup { [ok |-> FALSE, verified |-> FALSE, distance |-> 0, threshold |-> 0,
            np |-> FALSE, msg |-> m] : m \in Messages }

\* lines 55-61
Verify ==
    /\ pc = "verify"
    /\ \E r \in Results :
          /\ result' = r
          /\ calls' = Append(calls, <<refPath, todayPath>>)
          /\ IF r.ok
             THEN pc' = "map" /\ UNCHANGED excMsg
             ELSE pc' = "except" /\ excMsg' = r.msg
    /\ UNCHANGED <<debug, data, decodeArgs, refData, todayData,
                   refPath, todayPath, fs, response>>

\* round(num / den, 4) in units of 10^-4, ties to even; num >= 0, den > 0
Round(num, den) ==
    LET n == num * Scale
        q == n \div den
        r == n % den
    IN  IF 2 * r < den THEN q
        ELSE IF 2 * r > den THEN q + 1
        ELSE IF q % 2 = 0 THEN q ELSE q + 1

\* distance / threshold without the "1.0 -"
ConfidenceNotInverted(distance, threshold) ==
    IF distance >= threshold THEN Scale
    ELSE Round(distance, threshold)

\* line 71 and round(confidence, 4), for threshold # 0:
\* max(0.0, min(1.0, 1.0 - (distance / threshold)))
Confidence(distance, threshold) ==
    IF distance >= threshold THEN 0
    ELSE Round(threshold - distance, threshold)

\* line 71 for threshold = 0 with numpy floats: distance / threshold is nan
\* (0/0) or inf; min(1.0, nan) is 1.0 and max(0.0, -inf) is 0.0
ConfidenceZeroNp(distance) == IF distance = 0 THEN Scale ELSE 0

\* lines 64-78
MapResult ==
    /\ pc = "map"
    /\ IF result.threshold = 0 /\ ~result.np
       THEN /\ pc' = "except"
            /\ excMsg' = <<"float division by zero">>
            /\ UNCHANGED response
       ELSE /\ response' =
                  [status |-> 200,
                   body |-> [match |-> result.verified,
                             confidence |->
                                 IF result.threshold = 0
                                 THEN ConfidenceZeroNp(result.distance)
                                 ELSE Confidence(result.distance, result.threshold),
                             distance |-> Round(result.distance, Denom),
                             threshold |-> Round(result.threshold, Denom)]]
            /\ pc' = "cleanup"
            /\ UNCHANGED excMsg
    /\ UNCHANGED <<debug, data, decodeArgs, refData, todayData,
                   refPath, todayPath, fs, calls, result>>

\* only the first phrasing is looked for
HandleFailureOnePhrase ==
    /\ pc = "except"
    /\ response' =
          IF Contains(excMsg, "Face could not be detected")
          THEN ErrorResponse(400, <<"Face could not be detected in one or both images">>)
          ELSE ErrorResponse(500, <<"Face recognition error: ">> \o excMsg)
    /\ pc' = "cleanup"
    /\ UNCHANGED <<debug, data, decodeArgs, refData, todayData,
                   refPath, todayPath, fs, calls, result, excMsg>>

\* a failed call is tried once more
HandleFailureRetry ==
    /\ pc = "except"
    /\ IF Len(calls) < 2
       THEN /\ pc' = "verify"
            /\ UNCHANGED response
       ELSE /\ response' = ErrorResponse(500, <<"Face recognition error: ">> \o excMsg)
            /\ pc' = "cleanup"
    /\ UNCHANGED <<debug, data, decodeArgs, refData, todayData,
                   refPath, todayPath, fs, calls, result, excMsg>>

\* lines 80-94
HandleFailure ==
    /\ pc = "except"
    /\ response' =
          IF Contains(excMsg, "Face could not be detected")
             \/ Contains(excMsg, "No face detected")
          THEN ErrorResponse(400, <<"Face could not be detected in one or both images">>)
          ELSE ErrorResponse(500, <<"Face recognition error: ">> \o excMsg)
    /\ pc' = "cleanup"
    /\ UNCHANGED <<debug, data, decodeArgs, refData, todayData,
                   refPath, todayPath, fs, calls, result, excMsg>>

\* the finally block without its own try: a failed unlink reaches the outer
\* except
CleanupPropagates ==
    /\ pc = "cleanup"
    /\ \E u1 \in BOOLEAN, u2 \in BOOLEAN :
          /\ fs' = IF ~u1 THEN fs
                   ELSE IF ~u2 THEN fs \ {refPath}
                   ELSE fs \ {refPath, todayPath}
          /\ response' = IF u1 /\ u2 THEN response ELSE ServerError("unlink failed")
    /\ pc' = "done"
    /\ UNCHANGED <<debug, data, decodeArgs, refData, todayData,
                   refPath, todayPath, calls, result, excMsg>>

\* lines 95-101: the finally block; the response computed before is returned
Cleanup ==
    /\ pc = "cleanup"
    /\ \E u1 \in BOOLEAN, u2 \in BOOLEAN :
          fs' = IF ~u1 THEN fs
                ELSE IF ~u2 THEN fs \ {refPath}
                ELSE fs \ {refPath, todayPath}
    /\ pc' = "done"
    /\ UNCHANGED <<debug, data, decodeArgs, refData, todayData,
                   refPath, todayPath, calls, result, excMsg, response>>

Next ==
    \/ Validate
    \/ Decode
    \/ StageRef
    \/ StageToday
    \/ Verify
    \/ MapResult
    \/ HandleFailure
    \/ Cleanup

Spec == Init /\ [][Next]_vars

\* ==== properties =========================================================
Done == pc = "done"

BothFields == data.kind = "object" /\ data.hasRef /\ data.hasToday

Abs(x) == IF x < 0 THEN -x ELSE x

\* v (units of 10^-Digits) is a nearest multiple of 10^-Digits to num / den
Nearest(v, num, den) == 2 * Abs(v * den - num * Scale) <= den

\* both decoder calls were made and both succeeded
Decoded ==
    /\ Len(decodeArgs) = 2
    /\ b64decode(decodeArgs[1]).ok
    /\ b64decode(decodeArgs[2]).ok

\* C1: once the response is returned, no temporary file staged by the
\* request exists, on every response path.
C1_NoStagedFileLeft == Done => fs = {}

\* C2 as stated: whenever the capability returned a result (distance >= 0,
\* threshold >= 0) the response is a 200 whose confidence is
\* clamp(1 - distance/threshold, 0, 1) rounded to 4 decimals and whose match,
\* distance and threshold are the capability's values.
C2_AsStated ==
    (Done /\ result.ok) =>
        /\ response.status = 200
        /\ response.body.match = result.verified
        /\ response.body.confidence \in 0..Scale
        /\ result.threshold > 0 =>
               IF result.distance >= result.threshold
               THEN response.body.confidence = 0
               ELSE Nearest(response.body.confidence,
                            result.threshold - result.distance, result.threshold)
        /\ response.body.distance * Denom = result.distance * Scale
        /\ response.body.threshold * Denom = result.threshold * Scale

\* C2 amended: whenever the capability returned a result with distance >= 0
\* and threshold > 0, the response is a 200 whose confidence lies in [0,1] and
\* is clamp(1 - distance/threshold, 0, 1) rounded to 4 decimals, whose match is
\* the capability's value and whose distance and threshold are the
\* capability's values rounded to 4 decimals.
C2_Confidence ==
    (Done /\ result.ok /\ result.threshold > 0) =>
        /\ response.status = 200
        /\ response.body.match = result.verified
        /\ response.body.confidence \in 0..Scale
        /\ IF result.distance >= result.threshold
           THEN response.body.confidence = 0
           ELSE Nearest(response.body.confidence,
                        result.threshold - result.distance, result.threshold)
        /\ Nearest(response.body.distance, result.distance, Denom)
        /\ Nearest(response.body.threshold, result.threshold, Denom)

C2_Witness ==
    /\ Done
    /\ result.ok
    /\ 0 < result.distance
    /\ result.distance < result.threshold
    /\ response.status = 200
    /\ response.body.confidence \notin {0, Scale}
    /\ response.body.distance * Denom # result.distance * Scale

\* the payload is absent, empty, or an object without one of the two keys
MissingPayload ==
    \/ data.kind \in {"none", "falsy"}
    \/ data.kind = "object" /\ ~(data.hasRef /\ data.hasToday)

\* C3: a request whose payload is absent, empty or lacks one of the two keys
\* is answered with 400, match false, confidence 0.0 and the error
\* "Missing reference_photo or today_photo", and nothing is decoded, staged or
\* passed to the capability.
C3_MissingFields ==
    (pc # "validate" /\ MissingPayload) =>
        /\ Done
        /\ response.status = 400
        /\ response.body.match = FALSE
        /\ response.body.confidence = 0
        /\ response.body.error = <<"Missing reference_photo or today_photo">>
        /\ decodeArgs = <<>>
        /\ fs = {}
        /\ refPath = NoPath /\ todayPath = NoPath
        /\ calls = <<>>

C3_Witness ==
    /\ Done
    /\ data.kind = "object"
    /\ data.hasRef
    /\ ~data.hasToday
    /\ response.status = 400

\* base64 as RFC 4648 defines it: quads of alphabet characters, the last
\* quad possibly ending in one or two pads
ValidBase64(s) ==
    /\ Len(s) % 4 = 0
    /\ \A i \in 1..Len(s) : s[i] \in {"A", "="}
    /\ \A i \in 1..Len(s) : s[i] = "=" => i >= Len(s) - 1
    /\ (Len(s) > 0 /\ s[Len(s) - 1] = "=") => s[Len(s)] = "="

\* the input without everything up to and including its first comma
AfterFirstComma(s) == SubSeq(s, Min(Commas(s)) + 1, Len(s))

\* a string field that, after prefix stripping, is not valid base64
NotBase64(f) ==
    /\ f.str
    /\ IF startswith(f.s)
       THEN Commas(f.s) # {} /\ ~ValidBase64(AfterFirstComma(f.s))
       ELSE ~ValidBase64(f.s)

\* C4: when either field is a string that is not valid base64, the response
\* is 400 with match false, confidence 0.0 and an invalid-base64 error, no file
\* is staged and the capability is not called.
C4_InvalidBase64Rejected ==
    (pc \notin {"validate", "decode"} /\ BothFields
       /\ (NotBase64(data.ref) \/ NotBase64(data.today))) =>
        /\ Done
        /\ response.status = 400
        /\ response.body.match = FALSE
        /\ response.body.confidence = 0
        /\ response.body.error[1] = "Invalid base64 image data: "
        /\ fs = {}
        /\ calls = <<>>

\* the failure message of the capability uses one of the known phrasings
NoFace(msg) ==
    \E i \in 1..Len(msg) :
        msg[i] \in {"Face could not be detected", "No face detected"}

\* the 500 of the branch around the capability call
BranchError ==
    /\ Done
    /\ response.status = 500
    /\ response.body.error[1] = "Face recognition error: "

C5_Classified ==
    (Done /\ calls # <<>> /\ ~result.ok) =>
        /\ response.body.match = FALSE
        /\ response.body.confidence = 0
        /\ IF NoFace(result.msg)
           THEN /\ response.status = 400
                /\ response.body.error =
                       <<"Face could not be detected in one or both images">>
           ELSE /\ response.status = 500
                /\ response.body.error = <<"Face recognition error: ">> \o result.msg

\* C5 as stated: a failure of the capability is answered with 400 and the
\* fixed no-face text when its message says no face was detected and with
\* 500 and the original text otherwise, and a 500 of this branch comes only
\* from a failure of the capability call itself.
C5_AsStated ==
    /\ C5_Classified
    /\ BranchError => ~result.ok

\* C5 amended: the same classification; a 500 of this branch comes from a
\* failure of the capability call or from a failure while mapping a returned
\* result, which happens when the threshold is zero and the division raises.
C5_FailureClassification ==
    /\ C5_Classified
    /\ BranchError => (~result.ok \/ (result.threshold = 0 /\ ~result.np))

C5_Witness ==
    /\ Done
    /\ ~result.ok
    /\ result.msg = <<"other text", "No face detected">>
    /\ response.status = 400

\* C6: a field that starts with "data:" is handed to the decoder as the
\* input with everything up to and including its first comma removed, the
\* whole remainder; a field without the marker is handed over unchanged.
C6_WholeRemainderDecoded ==
    /\ (BothFields /\ data.ref.str /\ Len(decodeArgs) >= 1) =>
           decodeArgs[1] = IF startswith(data.ref.s)
                           THEN AfterFirstComma(data.ref.s)
                           ELSE data.ref.s
    /\ (BothFields /\ data.today.str /\ Len(decodeArgs) >= 2) =>
           decodeArgs[2] = IF startswith(data.today.s)
                           THEN AfterFirstComma(data.today.s)
                           ELSE data.today.s

\* C7: the capability is called at most once, with the two paths staged by
\* the request (both files present during the call), exactly once when
\* validation and staging succeeded, and never for a request rejected before.
C7_InvokedOnce ==
    /\ Len(calls) <= 1
    /\ calls # <<>> =>
           /\ calls[1] = <<refPath, todayPath>>
           /\ refPath # NoPath /\ todayPath # NoPath /\ refPath # todayPath
           /\ ~Done => {refPath, todayPath} \subseteq fs
    /\ (Done /\ refPath # NoPath /\ todayPath # NoPath) => Len(calls) = 1
    /\ (Done /\ (refPath = NoPath \/ todayPath = NoPath)) => calls = <<>>
    /\ (Done /\ (~BothFields \/ ~Decoded)) => calls = <<>>

C7_Witness ==
    /\ Done
    /\ Len(calls) = 1
    /\ ~result.ok
    /\ ~NoFace(result.msg)
    /\ response.status = 500

\* C8: a returned response has status 200 with match, confidence, distance
\* and threshold and no error, or status 400 or 500 with match false,
\* confidence 0.0, a non-empty error, and neither distance nor threshold.
C8_ResponseShape ==
    Done =>
        /\ response.status \in {200, 400, 500}
        /\ response.status = 200 =>
               /\ DOMAIN response.body =
                      {"match", "confidence", "distance", "threshold"}
               /\ response.body.match \in BOOLEAN
        /\ response.status \in {400, 500} =>
               /\ {"match", "confidence", "error"} \subseteq DOMAIN response.body
               /\ "distance" \notin DOMAIN response.body
               /\ "threshold" \notin DOMAIN response.body
               /\ response.body.match = FALSE
               /\ response.body.confidence = 0
               /\ response.body.error # <<>>

C8_Witness ==
    /\ Done
    /\ response.status = 500
    /\ calls # <<>>
    /\ result.msg = <<>>
    /\ ~result.ok

\* staging was reached and did not complete
StagingFailed == Done /\ Decoded /\ (refPath = NoPath \/ todayPath = NoPath)

\* the payload went through the key test and one of its fields is not a string
NonStringField == BothFields /\ (~data.ref.str \/ ~data.today.str)

IsServerError ==
    /\ response.status = 500
    /\ response.body.match = FALSE
    /\ response.body.confidence = 0
    /\ response.body.error[1] = "Server error: "

\* C9 as stated: a payload that is not a key/value object, a field that is
\* not a string, or an exception while staging is answered by the outer
\* boundary with 500, match false, confidence 0.0 and the failure description.
C9_AsStated ==
    (Done /\ (data.kind \in {"unreadable", "scalar", "container"}
                \/ NonStringField \/ StagingFailed)) => IsServerError

\* C9 amended: request.json raising, a number or true as payload, a list or
\* string that contains both names, or an exception while staging is answered
\* by the outer boundary with 500, match false, confidence 0.0 and the failure
\* description; a field that is not a string is answered with the 400 of the
\* decode block, and a list or string that lacks a name with the 400 for
\* missing fields.
C9_OuterBoundary ==
    /\ (Done /\ (data.kind \in {"unreadable", "scalar"}
                   \/ (data.kind = "container" /\ data.hasRef /\ data.hasToday)
                   \/ StagingFailed)) => IsServerError
    /\ (Done /\ NonStringField) =>
           /\ response.status = 400
           /\ response.body.error[1] = "Invalid base64 image data: "
    /\ (Done /\ data.kind = "container" /\ ~(data.hasRef /\ data.hasToday)) =>
           /\ response.status = 400
           /\ response.body.error = <<"Missing reference_photo or today_photo">>

C9_Witness ==
    /\ StagingFailed
    /\ refPath # NoPath
    /\ todayPath = NoPath
    /\ response.status = 500

\* C10: removing the staged files, whether or not a removal fails, leaves
\* the response computed before it unchanged, and that response is returned.
C10_CleanupKeepsResponse ==
    [][pc = "cleanup" => (response' = response /\ pc' = "done")]_vars

C10_Witness ==
    /\ Done
    /\ calls # <<>>
    /\ refPath \in fs
    /\ todayPath \in fs
    /\ response.status = 200
====
